---------------------------- MODULE Spec2Model ----------------------------
(***************************************************************************)
(* Model of src/bot.py: the advent-calendar bot.                           *)
(*                                                                         *)
(* One plan (UserPlan) per user is kept as a mutable object in the         *)
(* in-memory mapping bot_data["users"] and mirrored in the Postgres table  *)
(* subscribers.  A job named gift_<user_id> in the job queue runs          *)
(* send_scheduled_gift; /gift and the end-date callback are update         *)
(* handlers.  Update handlers are processed one at a time (the Application *)
(* is built without concurrent_updates), jobs run as separate tasks on the *)
(* same event loop, so a job and an update handler interleave at their     *)
(* awaits.  Every awaited transport call either returns or raises; a       *)
(* raised exception ends the handler and is passed to error_handler.       *)
(*                                                                         *)
(* Dates are the days of one December, numbered from 1.  The clock has two *)
(* instants per day: before SEND_TIME and at-or-after SEND_TIME.  An await  *)
(* lasts seconds, so the clock moves only while no task is suspended.      *)
(***************************************************************************)
EXTENDS Integers, Sequences, FiniteSets, TLC

\* ---- bounds of the model ----
MaxDay == 3        \* last calendar day the clock reaches; start buttons 1..MaxDay
MaxSends == 3      \* gift messages delivered per user within one behaviour

\* ---- program constants ----
STATE_END == 2

\* first day offered by the end-date keyboard (range(24, 32) in the source,
\* here the upper part of the modelled month)
EndFirst == MaxDay - 1

Users == {"u1"}
ObjIds == {1, 2}        \* UserPlan objects of one user: 1 is the object
                        \* users refers to, 2 one only a suspended task holds
None == 0               \* Python None for dates and references
ConvEnd == 0            \* ConversationHandler.END

StartDays == 1..MaxDay              \* make_keyboard("start", range(1, 32))
EndDays == EndFirst..MaxDay         \* make_keyboard("end", range(24, 32))

NoPlan == [start_date |-> None, end_date |-> None, next_date |-> None,
           last_gift_date |-> None]

VARIABLES
  now,        \* datetime.now(MOSCOW_TZ): 2*day + (1 if time >= SEND_TIME else 0)
  up,         \* the process is running
  heap,       \* heap[u][o]: the UserPlan object o of user u (NoPlan: no object)
  users,      \* bot_data["users"]: user -> reference to a UserPlan, or None
  store,      \* table subscribers: user -> row, or NoPlan
  jobs,       \* job queue: user -> fire times of the jobs named gift_<user>
  job,        \* the running send_scheduled_gift task of each user
  upd,        \* the update handler in progress (one at a time)
  user_data,  \* context.user_data["start_date"] of each user
  conv,       \* ConversationHandler state of each user
  sent        \* gift messages the transport accepted, per user, in order

vars == <<now, up, heap, users, store, jobs, job, upd, user_data, conv, sent>>

\* ---- time ----
Today(t) == t \div 2                     \* datetime.now(MOSCOW_TZ).date()
RunAt(d) == 2 * d + 1                    \* datetime.combine(d, SEND_TIME)
FirstInstant == RunAt(1) - 1             \* day 1, before SEND_TIME
LastInstant == RunAt(MaxDay)             \* day MaxDay, after SEND_TIME

Max(a, b) == IF a >= b THEN a ELSE b

\* ---- content ----
get_gift_text(gift_date) == <<"gift", gift_date>>

\* a message carrying gift content: its wording and the gift text in it
Msg(via, gift_date) == [via |-> via, text |-> get_gift_text(gift_date)]

\* ---- plans ----
UserPlan(s, e, n, l) ==
  [start_date |-> s, end_date |-> e, next_date |-> n, last_gift_date |-> l]

\* the plan a read of users.get(u) sees
PlanOf(u) == IF users[u] = None THEN NoPlan ELSE heap[u][users[u]]

IdleJob == [pc |-> "idle", plan |-> None, date |-> None]
IdleUpd == [pc |-> "idle", uid |-> "u1", plan |-> None, today |-> None,
            new |-> NoPlan]

\* a task ended by an exception, until error_handler has logged it
Raised(kind, u) == [IdleUpd EXCEPT !.pc = kind, !.uid = u]
RaisedJob(kind) == [IdleJob EXCEPT !.pc = kind]
RaisedPcs == {"send_raised", "store_raised"}

\* drop the objects nothing refers to any more
Collect(h, ref, held) == [o \in ObjIds |-> IF o = ref \/ o \in held THEN h[o] ELSE NoPlan]

\* the references held by task j and handler h while suspended at an await
HeldBy(u, j, h) ==
  (IF j.pc = "send" THEN {j.plan} ELSE {})
    \cup (IF h.pc = "gift_reply" /\ h.uid = u THEN {h.plan} ELSE {})

\* an object id no suspended task refers to (UserPlan(...) allocates)
NewObj(u) == CHOOSE o \in ObjIds : o \notin HeldBy(u, job[u], IdleUpd)

\* users[uid] = <object o>: the ids are renamed so that the object users
\* refers to is object 1 (an object's id is not observable)
Rename(o, x) == IF o = 1 \/ x = None THEN x ELSE 3 - x
Renamed(o, h) == [i \in ObjIds |-> h[Rename(o, i)]]

\* no task is suspended at an await or unwinding an exception
Quiet == upd.pc = "idle" /\ \A u \in Users : job[u].pc = "idle"

Init ==
  /\ now = FirstInstant
  /\ up = TRUE
  /\ heap = [u \in Users |-> [o \in ObjIds |-> NoPlan]]
  /\ users = [u \in Users |-> None]
  /\ store = [u \in Users |-> NoPlan]
  /\ jobs = [u \in Users |-> <<>>]
  /\ job = [u \in Users |-> IdleJob]
  /\ upd = IdleUpd
  /\ user_data = [u \in Users |-> None]
  /\ conv = [u \in Users |-> ConvEnd]
  /\ sent = [u \in Users |-> <<>>]

\* ---- the store ----

\* db_upsert_plan: the row of the user after the write
db_upsert_plan(plan) == plan

\* db_load_all: the reference users holds for u after loading the rows
db_load_all(u) == IF store[u] = NoPlan THEN None ELSE 1

\* ---- the scheduler ----

\* a re-arm that forgets lines 310-311 and keeps the old jobs
RemoveJobs_Keeps(q) == q

\* for job in get_jobs_by_name(job_name): job.schedule_removal()
RemoveJobs(q) == <<>>

\* run_at of line 316
FirstRunAt(plan) == RunAt(plan.next_date)

\* schedule_next_gift: the jobs named gift_<user> after the call
schedule_next_gift(q, plan, t) ==
  LET cleared == RemoveJobs(q)
      run_at == FirstRunAt(plan)
      tomorrow == plan.next_date + 1
  IN IF plan.next_date > plan.end_date THEN cleared
     ELSE IF run_at <= t
          THEN IF tomorrow > plan.end_date THEN cleared
               ELSE Append(cleared, RunAt(tomorrow))
          ELSE Append(cleared, run_at)

\* a job whose fire time has come
Due(u) == \E i \in 1..Len(jobs[u]) : jobs[u][i] <= now

\* the clock advances; the job queue runs a job when its time comes, so the
\* clock does not pass a pending job
Tick ==
  /\ now < LastInstant
  /\ Quiet
  /\ \A u \in Users : ~Due(u)
  /\ now' = now + 1
  /\ UNCHANGED <<up, heap, users, store, jobs, job, upd, user_data, conv, sent>>

\* error_handler: logs the exception of an update handler
error_handler ==
  /\ upd.pc \in RaisedPcs
  /\ upd' = IdleUpd
  /\ UNCHANGED <<now, up, heap, users, store, jobs, job, user_data, conv, sent>>

\* error_handler: logs the exception of a job
JobErrorHandler(u) ==
  /\ job[u].pc \in RaisedPcs
  /\ job' = [job EXCEPT ![u] = IdleJob]
  /\ UNCHANGED <<now, up, heap, users, store, jobs, upd, user_data, conv, sent>>

\* ---- conversation: /start and the start-date callback ----

\* /start, then pick_start_date: the pressed day is remembered and the end
\* keyboard is shown (a press whose reply raises is pressed again)
pick_start_date(u, day) ==
  /\ up /\ upd.pc = "idle"
  /\ user_data' = [user_data EXCEPT ![u] = day]
  /\ conv' = [conv EXCEPT ![u] = STATE_END]
  /\ UNCHANGED <<now, up, heap, users, store, jobs, job, upd, sent>>

\* ---- pick_end_date ----

\* a validation that accepts every end date
EndRejected_Never(start_dt, end_dt) == FALSE

\* a validation that also rejects an end date equal to the start date
EndRejected_AlsoEqual(start_dt, end_dt) == end_dt <= start_dt

\* the validation of the chosen end date (line 367): TRUE when rejected
EndRejected(start_dt, end_dt) == end_dt < start_dt

\* a first due date that is always start_date
first_due_date_Start(start_dt, today) == start_dt

\* the first due date of a new plan (line 377)
first_due_date(start_dt, today) == Max(start_dt, today)

\* lines 356-380: up to the await of the confirmation (or of the re-prompt)
PickEndBegin(u, end_day) ==
  /\ up /\ upd.pc = "idle"
  /\ conv[u] = STATE_END
  /\ Len(sent[u]) < MaxSends
  /\ LET start_dt == user_data[u]
         today == Today(now)
     IN upd' = IF EndRejected(start_dt, end_day)
               THEN [IdleUpd EXCEPT !.pc = "end_reject", !.uid = u]
               ELSE [IdleUpd EXCEPT !.pc = "end_edit", !.uid = u, !.today = today,
                       !.new = UserPlan(start_dt, end_day,
                                        first_due_date(start_dt, today), None)]
  /\ UNCHANGED <<now, up, heap, users, store, jobs, job, user_data, conv, sent>>

\* lines 368-372: the re-prompt was sent (or raised); nothing is changed
PickEndRejected(u) ==
  /\ upd.pc = "end_reject" /\ upd.uid = u
  /\ \E ok \in BOOLEAN : upd' = IF ok THEN IdleUpd ELSE Raised("send_raised", u)
  /\ UNCHANGED <<now, up, heap, users, store, jobs, job, user_data, conv, sent>>

\* lines 387-391: users[uid] = plan; db_upsert_plan; schedule_next_gift
PickEndCommit(u, plan, db_ok) ==
  LET o == NewObj(u) IN
  /\ users' = [users EXCEPT ![u] = Rename(o, o)]
  /\ job' = [job EXCEPT ![u].plan = Rename(o, @)]
  /\ heap' = [heap EXCEPT ![u] =
                Collect(Renamed(o, [@ EXCEPT ![o] = plan]), Rename(o, o),
                        HeldBy(u, job'[u], IdleUpd))]
  /\ IF db_ok
     THEN /\ store' = [store EXCEPT ![u] = db_upsert_plan(plan)]
          /\ jobs' = [jobs EXCEPT ![u] = schedule_next_gift(@, plan, now)]
          /\ conv' = [conv EXCEPT ![u] = ConvEnd]
          /\ upd' = IdleUpd
     ELSE /\ UNCHANGED <<store, jobs, conv>>
          /\ upd' = Raised("store_raised", u)

\* line 380 returned; line 382 decides whether today's gift is sent at once
PickEndEdited(u) ==
  /\ upd.pc = "end_edit" /\ upd.uid = u
  /\ LET plan == upd.new IN
     IF plan.start_date <= upd.today /\ upd.today <= plan.end_date
     THEN /\ upd' = [upd EXCEPT !.pc = "end_send"]
          /\ UNCHANGED <<heap, users, store, jobs, job, conv>>
     ELSE \E db_ok \in BOOLEAN : PickEndCommit(u, plan, db_ok)
  /\ UNCHANGED <<now, up, user_data, sent>>

\* lines 383-391: the gift of today was sent
PickEndSent(u) ==
  /\ upd.pc = "end_send" /\ upd.uid = u
  /\ sent' = [sent EXCEPT ![u] = Append(@, Msg("select", upd.today))]
  /\ LET plan == [upd.new EXCEPT !.last_gift_date = upd.today,
                                 !.next_date = upd.today + 1]
     IN \E db_ok \in BOOLEAN : PickEndCommit(u, plan, db_ok)
  /\ UNCHANGED <<now, up, user_data>>

\* the await of line 380 or 383 raised: the handler ends there
PickEndSendFailed(u) ==
  /\ upd.pc \in {"end_edit", "end_send"} /\ upd.uid = u
  /\ upd' = Raised("send_raised", u)
  /\ UNCHANGED <<now, up, heap, users, store, jobs, job, user_data, conv, sent>>

\* ---- send_scheduled_gift ----

\* q without its i-th job (a run_once job leaves the queue when it runs)
RemoveAt(q, i) == SubSeq(q, 1, i - 1) \o SubSeq(q, i + 1, Len(q))

\* lines 347-348 on the object the task holds
AdvanceScheduled(plan) ==
  [plan EXCEPT !.last_gift_date = plan.next_date, !.next_date = plan.next_date + 1]

\* a task that forgets lines 341-342 and goes on without a plan
JobFire_NoCheck(u) ==
  /\ up /\ job[u].pc = "idle"
  /\ Len(sent[u]) < MaxSends
  /\ \E i \in 1..Len(jobs[u]) :
       /\ jobs[u][i] <= now
       /\ jobs' = [jobs EXCEPT ![u] = RemoveAt(@, i)]
  /\ job' = [job EXCEPT ![u] =
               [pc |-> "send", plan |-> users[u], date |-> PlanOf(u).next_date]]
  /\ UNCHANGED <<now, up, heap, users, store, upd, user_data, conv, sent>>

\* lines 333-345: a due job starts; reads the plan, builds the text of
\* plan.next_date and awaits send_message
JobFire(u) ==
  /\ up /\ job[u].pc = "idle"
  /\ Len(sent[u]) < MaxSends
  /\ \E i \in 1..Len(jobs[u]) :
       /\ jobs[u][i] <= now
       /\ jobs' = [jobs EXCEPT ![u] = RemoveAt(@, i)]
  /\ job' = [job EXCEPT ![u] =
               IF users[u] = None THEN IdleJob
               ELSE [pc |-> "send", plan |-> users[u], date |-> PlanOf(u).next_date]]
  /\ UNCHANGED <<now, up, heap, users, store, upd, user_data, conv, sent>>

\* a task that re-arms before it writes the table (lines 351 and 352 swapped)
JobSent_RearmsFirst(u) ==
  /\ job[u].pc = "send"
  /\ LET o == job[u].plan
         plan == AdvanceScheduled(heap[u][o])
     IN /\ sent' = [sent EXCEPT ![u] = Append(@, Msg("timer", job[u].date))]
        /\ users' = [users EXCEPT ![u] = Rename(o, o)]
        /\ upd' = IF upd.uid = u THEN [upd EXCEPT !.plan = Rename(o, @)] ELSE upd
        /\ heap' = [heap EXCEPT ![u] =
                      Collect(Renamed(o, [@ EXCEPT ![o] = plan]), Rename(o, o),
                              HeldBy(u, IdleJob, upd'))]
        /\ jobs' = [jobs EXCEPT ![u] = schedule_next_gift(@, plan, now)]
        /\ \E db_ok \in BOOLEAN :
             IF db_ok
             THEN /\ store' = [store EXCEPT ![u] = db_upsert_plan(plan)]
                  /\ job' = [job EXCEPT ![u] = IdleJob]
             ELSE /\ UNCHANGED store
                  /\ job' = [job EXCEPT ![u] = RaisedJob("store_raised")]
  /\ UNCHANGED <<now, up, user_data, conv>>

\* lines 347-352: send_message returned
JobSent(u) ==
  /\ job[u].pc = "send"
  /\ LET o == job[u].plan
         plan == AdvanceScheduled(heap[u][o])
     IN /\ sent' = [sent EXCEPT ![u] = Append(@, Msg("timer", job[u].date))]
        /\ users' = [users EXCEPT ![u] = Rename(o, o)]
        /\ upd' = IF upd.uid = u THEN [upd EXCEPT !.plan = Rename(o, @)] ELSE upd
        /\ heap' = [heap EXCEPT ![u] =
                      Collect(Renamed(o, [@ EXCEPT ![o] = plan]), Rename(o, o),
                              HeldBy(u, IdleJob, upd'))]
        /\ \E db_ok \in BOOLEAN :
             IF db_ok
             THEN /\ store' = [store EXCEPT ![u] = db_upsert_plan(plan)]
                  /\ jobs' = [jobs EXCEPT ![u] = schedule_next_gift(@, plan, now)]
                  /\ job' = [job EXCEPT ![u] = IdleJob]
             ELSE /\ UNCHANGED <<store, jobs>>
                  /\ job' = [job EXCEPT ![u] = RaisedJob("store_raised")]
  /\ UNCHANGED <<now, up, user_data, conv>>

\* a task that advances the plan before it sends, and then fails to send
JobSendFailed_Advances(u) ==
  /\ job[u].pc = "send"
  /\ job' = [job EXCEPT ![u] = RaisedJob("send_raised")]
  /\ heap' = [heap EXCEPT ![u][job[u].plan] = AdvanceScheduled(@)]
  /\ UNCHANGED <<now, up, users, store, jobs, upd, user_data, conv, sent>>

\* line 345 raised: the task ends there
JobSendFailed(u) ==
  /\ job[u].pc = "send"
  /\ job' = [job EXCEPT ![u] = RaisedJob("send_raised")]
  /\ heap' = [heap EXCEPT ![u] = Collect(@, users[u], HeldBy(u, IdleJob, upd))]
  /\ UNCHANGED <<now, up, users, store, jobs, upd, user_data, conv, sent>>

\* ---- gift ----

\* line 414
is_on_demand_duplicate(plan, today) == plan.last_gift_date = today

\* an on-demand delivery that always moves next_date to today + 1
AdvanceOnDemand_Always(plan, today) ==
  [plan EXCEPT !.last_gift_date = today, !.next_date = today + 1]

\* lines 425-428 on the object the handler holds
AdvanceOnDemand(plan, today) ==
  [plan EXCEPT !.last_gift_date = today,
               !.next_date = IF plan.next_date <= today THEN today + 1 ELSE @]

\* lines 400-423: reads the plan and today, chooses the reply and awaits it
GiftBegin(u) ==
  /\ up /\ upd.pc = "idle"
  /\ Len(sent[u]) < MaxSends
  /\ LET today == Today(now) IN
     upd' = IF users[u] = None
            THEN [IdleUpd EXCEPT !.pc = "gift_noplan", !.uid = u]
            ELSE IF is_on_demand_duplicate(PlanOf(u), today)
            THEN [IdleUpd EXCEPT !.pc = "gift_repeat", !.uid = u, !.today = today]
            ELSE [IdleUpd EXCEPT !.pc = "gift_reply", !.uid = u, !.today = today,
                                 !.plan = users[u]]
  /\ UNCHANGED <<now, up, heap, users, store, jobs, job, user_data, conv, sent>>

\* lines 409-410: the not-configured reply returned (or raised)
GiftNoPlan(u) ==
  /\ upd.pc = "gift_noplan" /\ upd.uid = u
  /\ \E ok \in BOOLEAN : upd' = IF ok THEN IdleUpd ELSE Raised("send_raised", u)
  /\ UNCHANGED <<now, up, heap, users, store, jobs, job, user_data, conv, sent>>

\* lines 415-418: the repeat of today's gift was sent
GiftRepeated(u) ==
  /\ upd.pc = "gift_repeat" /\ upd.uid = u
  /\ upd' = IdleUpd
  /\ sent' = [sent EXCEPT ![u] = Append(@, Msg("repeat", upd.today))]
  /\ UNCHANGED <<now, up, heap, users, store, jobs, job, user_data, conv>>

\* lines 420-434: today's gift was sent
GiftSent(u) ==
  /\ upd.pc = "gift_reply" /\ upd.uid = u
  /\ LET o == upd.plan
         old == heap[u][o]
         plan == AdvanceOnDemand(old, upd.today)
     IN /\ sent' = [sent EXCEPT ![u] = Append(@, Msg("gift", upd.today))]
        /\ users' = [users EXCEPT ![u] = Rename(o, o)]
        /\ job' = [job EXCEPT ![u].plan = Rename(o, @)]
        /\ heap' = [heap EXCEPT ![u] =
                      Collect(Renamed(o, [@ EXCEPT ![o] = plan]), Rename(o, o),
                              HeldBy(u, job'[u], IdleUpd))]
        /\ \E db_ok \in BOOLEAN :
             IF db_ok
             THEN /\ store' = [store EXCEPT ![u] = db_upsert_plan(plan)]
                  /\ jobs' = [jobs EXCEPT ![u] =
                                IF old.next_date <= upd.today
                                THEN schedule_next_gift(@, plan, now) ELSE @]
                  /\ upd' = IdleUpd
             ELSE /\ UNCHANGED <<store, jobs>>
                  /\ upd' = Raised("store_raised", u)
  /\ UNCHANGED <<now, up, user_data, conv>>

\* the await of line 415 or 420 raised: the handler ends there
GiftSendFailed(u) ==
  /\ upd.pc \in {"gift_repeat", "gift_reply"} /\ upd.uid = u
  /\ upd' = Raised("send_raised", u)
  /\ heap' = [heap EXCEPT ![u] = Collect(@, users[u], HeldBy(u, job[u], IdleUpd))]
  /\ UNCHANGED <<now, up, users, store, jobs, job, user_data, conv, sent>>

\* ---- main ----

\* the process stops: the tasks, the job queue, the conversations and the
\* objects are gone; the table stays
Stop ==
  /\ up
  /\ up' = FALSE
  /\ users' = [u \in Users |-> None]
  /\ heap' = [u \in Users |-> [o \in ObjIds |-> NoPlan]]
  /\ jobs' = [u \in Users |-> <<>>]
  /\ job' = [u \in Users |-> IdleJob]
  /\ upd' = IdleUpd
  /\ user_data' = [u \in Users |-> None]
  /\ conv' = [u \in Users |-> ConvEnd]
  /\ UNCHANGED <<now, store, sent>>

\* main: bot_data["users"] = db_load_all(), the handlers are registered and
\* polling starts
main ==
  /\ ~up
  /\ up' = TRUE
  /\ users' = [u \in Users |-> db_load_all(u)]
  /\ heap' = [u \in Users |-> [o \in ObjIds |->
                IF o = db_load_all(u) THEN store[u] ELSE NoPlan]]
  /\ UNCHANGED <<now, store, jobs, job, upd, user_data, conv, sent>>

Next ==
  \/ Tick
  \/ Stop
  \/ main
  \/ error_handler
  \/ \E u \in Users : JobErrorHandler(u)
  \/ \E u \in Users, day \in StartDays : pick_start_date(u, day)
  \/ \E u \in Users, day \in EndDays : PickEndBegin(u, day)
  \/ \E u \in Users : PickEndRejected(u)
  \/ \E u \in Users : PickEndEdited(u)
  \/ \E u \in Users : PickEndSent(u)
  \/ \E u \in Users : PickEndSendFailed(u)
  \/ \E u \in Users : JobFire(u)
  \/ \E u \in Users : JobSent(u)
  \/ \E u \in Users : JobSendFailed(u)
  \/ \E u \in Users : GiftBegin(u)
  \/ \E u \in Users : GiftNoPlan(u)
  \/ \E u \in Users : GiftRepeated(u)
  \/ \E u \in Users : GiftSent(u)
  \/ \E u \in Users : GiftSendFailed(u)

Spec == Init /\ [][Next]_vars

\* ---- schedule_next_gift on its own ----

RearmLastDay == 10      \* last calendar day of the plans and clocks tried

\* the plans a user can have: the Delivery Plan invariants hold
RearmPlans ==
  {plan \in [start_date : 1..RearmLastDay, end_date : 1..RearmLastDay,
             next_date : 1..(RearmLastDay + 1),
             last_gift_date : {None} \cup 1..RearmLastDay] :
     /\ plan.start_date <= plan.end_date
     /\ plan.start_date <= plan.next_date
     /\ plan.next_date <= plan.end_date + 1
     /\ plan.last_gift_date # None => plan.last_gift_date = plan.next_date - 1}

\* any plan of one user, stored and loaded, at any time, no job pending
InitRearm ==
  /\ now \in FirstInstant..RunAt(RearmLastDay)
  /\ up = TRUE
  /\ \E plan \in RearmPlans :
       /\ heap = [u \in Users |-> [o \in ObjIds |-> IF o = 1 THEN plan ELSE NoPlan]]
       /\ store = [u \in Users |-> plan]
  /\ users = [u \in Users |-> 1]
  /\ jobs = [u \in Users |-> <<>>]
  /\ job = [u \in Users |-> IdleJob]
  /\ upd = IdleUpd
  /\ user_data = [u \in Users |-> None]
  /\ conv = [u \in Users |-> ConvEnd]
  /\ sent = [u \in Users |-> <<>>]

\* a re-arm that, when it skips a passed fire time, also moves next_date
Rearm_Advances(u) ==
  /\ up /\ users[u] # None
  /\ jobs' = [jobs EXCEPT ![u] = schedule_next_gift(@, PlanOf(u), now)]
  /\ heap' = [heap EXCEPT ![u][users[u]].next_date =
                IF FirstRunAt(PlanOf(u)) <= now THEN @ + 1 ELSE @]
  /\ UNCHANGED <<now, up, users, store, job, upd, user_data, conv, sent>>

\* schedule_next_gift(context, user_id, plan) called with the user's plan
Rearm(u) ==
  /\ up /\ users[u] # None
  /\ jobs' = [jobs EXCEPT ![u] = schedule_next_gift(@, PlanOf(u), now)]
  /\ UNCHANGED <<now, up, heap, users, store, job, upd, user_data, conv, sent>>

NextRearm == \E u \in Users : Rearm(u)

SpecRearm == InitRearm /\ [][NextRearm]_vars

\* ---- what the steps deliver ----

DateOf(m) == m.text[2]
DatesSent(u) == {DateOf(sent[u][i]) : i \in 1..Len(sent[u])}

\* the step in which send_scheduled_gift resumes after its send (lines 347-352)
JobSentStep(u) ==
  job[u].pc = "send" /\ job'[u].pc \in {"idle", "store_raised"} /\ up'

\* the step in which gift resumes after sending today's gift (lines 425-434)
GiftSentStep(u) ==
  upd.pc = "gift_reply" /\ upd.uid = u /\ upd'.pc \in {"idle", "store_raised"} /\ up'

\* the step in which pick_end_date installs the new plan (lines 387-390)
SelectStep(u) ==
  /\ upd.pc \in {"end_edit", "end_send"} /\ upd.uid = u
  /\ upd'.pc \in {"idle", "store_raised"} /\ up'

\* ---- C1 ----
\* C1: a timer firing and an on-demand request of one user that overlap at
\* their send awaits behave as if one ran after the other: when the timer
\* task resumes, the plan moves exactly one day past the date whose content
\* the task sent (last_gift_date is that date, next_date the day after), and
\* last_gift_date is always a date whose content was sent.
C1_LastGiftWasSent(u) ==
  PlanOf(u).last_gift_date # None => PlanOf(u).last_gift_date \in DatesSent(u)

C1_NoDoubleAdvance ==
  [][\A u \in Users :
       /\ up' => C1_LastGiftWasSent(u)'
       /\ JobSentStep(u) =>
            /\ PlanOf(u)'.last_gift_date = job[u].date
            /\ PlanOf(u)'.next_date = job[u].date + 1]_vars

\* ---- C2 ----
\* C2: in every reachable state each user has at most one pending job named
\* gift_<user_id>.
C2_AtMostOneTimer == \A u \in Users : Len(jobs[u]) <= 1

\* a job is pending that was armed by the re-arm after a timer delivery
C2_Witness ==
  \E u \in Users :
    /\ Len(jobs[u]) = 1
    /\ \E i \in 1..Len(sent[u]) : sent[u][i].via = "timer"


\* ---- C3 ----
\* C3: once /gift has been answered on a day and the plan records that day as
\* last_gift_date, a further /gift on that day is a repeat that changes
\* nothing: until the day ends, the plan is re-selected or the process stops,
\* no step makes is_on_demand_duplicate false again.
GiftAnsweredToday(u) ==
  /\ sent[u] # <<>>
  /\ sent[u][Len(sent[u])].via \in {"gift", "repeat"}
  /\ DateOf(sent[u][Len(sent[u])]) = Today(now)
  /\ users[u] # None
  /\ is_on_demand_duplicate(PlanOf(u), Today(now))

C3_SecondGiftIsRepeat ==
  [][\A u \in Users :
       (GiftAnsweredToday(u) /\ ~SelectStep(u) /\ up' /\ now' = now)
         => is_on_demand_duplicate(PlanOf(u), Today(now))']_vars

\* ---- C4 ----
\* C4: the dates delivered to a user by timer firings and on-demand requests
\* are in ascending order, and no date is delivered twice by the timer.
C4_AscendingDeliveries ==
  \A u \in Users : \A i, j \in 1..Len(sent[u]) :
    (i < j /\ sent[u][i].via # "select" /\ sent[u][j].via # "select") =>
       /\ DateOf(sent[u][i]) <= DateOf(sent[u][j])
       /\ (sent[u][i].via = "timer" /\ sent[u][j].via = "timer")
            => DateOf(sent[u][i]) # DateOf(sent[u][j])

\* ---- C5 ----
\* C5: when the process starts, every user whose stored plan still has a
\* deliverable date gets a pending job.
Deliverable(plan, t) ==
  /\ plan # NoPlan
  /\ plan.next_date <= plan.end_date
  /\ RunAt(plan.next_date) > t \/ plan.next_date + 1 <= plan.end_date

C5_RearmOnStart ==
  [][(~up /\ up') =>
       \A u \in Users : Deliverable(store[u], now) => jobs'[u] # <<>>]_vars

\* ---- C6 ----
\* C6: the job armed by schedule_next_gift, if any, fires strictly later than
\* now; for the plan {start 5, end 10, next 5} and now = day 6 after SEND_TIME
\* it is armed for day 7 at SEND_TIME.
C6_TimerInFuture ==
  \A u \in Users :
    /\ \A i \in 1..Len(jobs[u]) : jobs[u][i] > now
    /\ (PlanOf(u) = UserPlan(5, 10, 5, None) /\ now = RunAt(6) /\ jobs[u] # <<>>)
         => jobs[u] = <<RunAt(7)>>

\* ---- C7 ----
\* C7: a send that raises in send_scheduled_gift, gift or pick_end_date leaves
\* the user's plan as it was, in memory and in the table.
SendRaisedStep(u) ==
  \/ job[u].pc = "send" /\ job'[u].pc = "send_raised"
  \/ /\ upd.pc \in {"gift_reply", "gift_repeat", "end_edit", "end_send"}
     /\ upd.uid = u /\ upd'.pc = "send_raised"

\* the steps of a handler up to its send await
BeforeSendStep(u) ==
  \/ job[u].pc = "idle" /\ job'[u].pc = "send"
  \/ /\ upd.pc = "idle"
     /\ upd'.pc \in {"gift_reply", "gift_repeat", "end_edit"} /\ upd'.uid = u
  \/ upd.pc = "end_edit" /\ upd'.pc = "end_send" /\ upd'.uid = u

C7_FailedSendKeepsPlan ==
  [][\A u \in Users :
       (SendRaisedStep(u) \/ BeforeSendStep(u))
          => /\ PlanOf(u)' = PlanOf(u)
             /\ store'[u] = store[u]]_vars

\* a scheduled send has raised for a user whose plan has a date to deliver
C7_Witness ==
  \E u \in Users :
    /\ job[u].pc = "send_raised"
    /\ users[u] # None
    /\ PlanOf(u).next_date <= PlanOf(u).end_date
    /\ PlanOf(u) = store[u]

\* ---- C8 ----
\* C8: whenever no handler is running, the plan the handlers read for a user
\* equals the user's row in the table.
C8_MemoryEqualsStore ==
  (up /\ Quiet) => \A u \in Users : PlanOf(u) = store[u]

\* ---- C9 ----
\* C9: a delivery by the timer or by /gift moves next_date of the plan to the
\* larger of its old value and the delivered date + 1, so it never decreases.
C9_AdvanceIsMax ==
  [][\A u \in Users :
       /\ JobSentStep(u) =>
            PlanOf(u)'.next_date =
              Max(heap[u][job[u].plan].next_date, job[u].date + 1)
       /\ GiftSentStep(u) =>
            PlanOf(u)'.next_date =
              Max(heap[u][upd.plan].next_date, upd.today + 1)]_vars

\* ---- C10 ----
\* C10: every plan in memory or in the table has start_date <= end_date,
\* start_date <= next_date and, when present, last_gift_date < next_date.
ValidPlan(plan) ==
  \/ plan = NoPlan
  \/ /\ plan.start_date <= plan.end_date
     /\ plan.start_date <= plan.next_date
     /\ plan.last_gift_date # None => plan.last_gift_date < plan.next_date

C10_PlanInvariants ==
  \A u \in Users :
    /\ \A o \in ObjIds : ValidPlan(heap[u][o])
    /\ ValidPlan(store[u])
    /\ upd.uid = u => ValidPlan(upd.new)

\* a plan that went through a timer delivery and an on-demand delivery is in
\* memory and in the table
C10_Witness ==
  \E u \in Users :
    /\ store[u] # NoPlan
    /\ store[u].last_gift_date # None
    /\ PlanOf(u) = store[u]
    /\ \E i, j \in 1..Len(sent[u]) :
         sent[u][i].via = "timer" /\ sent[u][j].via = "gift"

\* ---- C11 ----
\* C11: an on-demand delivery on day today sends the content of today; when
\* the plan's next_date is later than today it leaves next_date and the
\* pending job unchanged, and when next_date <= today it moves next_date to
\* today + 1.
C11_OnDemandFrame ==
  [][\A u \in Users :
       GiftSentStep(u) =>
         LET old == heap[u][upd.plan] IN
         /\ sent'[u] = Append(sent[u], Msg("gift", Today(now)))
         /\ old.next_date > Today(now) =>
              /\ PlanOf(u)'.next_date = old.next_date
              /\ jobs'[u] = jobs[u]
         /\ old.next_date <= Today(now) =>
              PlanOf(u)'.next_date = Today(now) + 1]_vars

\* /gift was answered on a day more than one day before next_date, and the
\* job armed for next_date is still pending
C11_Witness ==
  \E u \in Users :
    /\ Quiet /\ users[u] # None
    /\ sent[u] # <<>>
    /\ sent[u][Len(sent[u])].via = "gift"
    /\ PlanOf(u).last_gift_date = DateOf(sent[u][Len(sent[u])])
    /\ PlanOf(u).next_date > PlanOf(u).last_gift_date + 1
    /\ jobs[u] = <<RunAt(PlanOf(u).next_date)>>

\* ---- C12 ----
\* C12: a timer firing that found next_date = d and whose send and store
\* write succeeded has delivered the content of d, left last_gift_date = d
\* and next_date = d + 1 in memory and in the table, and left exactly one job
\* armed for d + 1 at SEND_TIME when d + 1 <= end_date, and none otherwise.
C12_FireAdvancesByOne ==
  [][\A u \in Users :
       (JobSentStep(u) /\ job'[u].pc = "idle") =>
         LET d == job[u].date
             plan == PlanOf(u)'
         IN /\ sent'[u] = Append(sent[u], Msg("timer", d))
            /\ plan.last_gift_date = d
            /\ plan.next_date = d + 1
            /\ store'[u] = plan
            /\ jobs'[u] = IF d + 1 <= plan.end_date THEN <<RunAt(d + 1)>>
                          ELSE <<>>]_vars

\* ---- C13 ----
\* C13: pressing an end date earlier than the remembered start date only
\* re-prompts: until that handler has ended it changes neither the plan in
\* memory or in the table, nor the pending job, nor the remembered start
\* date, delivers nothing and keeps the conversation waiting for an end
\* date; an end date equal to the start date is accepted and gives a plan
\* with start_date = end_date.
C13_EqualAccepted ==
  \A u \in Users :
    (up /\ upd.pc = "idle" /\ conv[u] = STATE_END /\ Len(sent[u]) < MaxSends
        /\ user_data[u] \in EndDays)
      => ENABLED (/\ PickEndBegin(u, user_data[u])
                  /\ upd'.pc = "end_edit"
                  /\ upd'.new.start_date = user_data[u]
                  /\ upd'.new.end_date = user_data[u])

\* the steps of pick_end_date on its rejecting path (lines 356-372)
RejectStep(u) ==
  \/ upd.pc = "idle" /\ upd'.pc = "end_reject" /\ upd'.uid = u
  \/ upd.pc = "end_reject" /\ upd.uid = u /\ upd'.pc # "end_reject" /\ up'

C13_RejectKeepsState ==
  /\ []C13_EqualAccepted
  /\ [][\A u \in Users :
          /\ RejectStep(u) =>
               /\ UNCHANGED <<heap, users, store, jobs, user_data, sent, conv>>
               /\ conv[u] = STATE_END
          /\ (upd.pc = "idle" /\ upd'.pc = "end_reject" /\ upd'.uid = u) =>
               \E day \in EndDays : day < user_data[u]
          /\ (upd.pc = "idle" /\ upd'.pc = "end_edit" /\ upd'.uid = u) =>
               /\ upd'.new.start_date = user_data[u]
               /\ upd'.new.start_date <= upd'.new.end_date]_vars

\* an end date before the start date is being rejected for a user who has a
\* plan in the table and a pending job
C13_Witness ==
  \E u \in Users :
    /\ upd.pc = "end_reject" /\ upd.uid = u
    /\ users[u] # None /\ store[u] = PlanOf(u)
    /\ jobs[u] # <<>>
    /\ user_data[u] > store[u].start_date

\* ---- C14 ----
\* C14: a handler touches the job queue only after its store write has
\* succeeded: in the step that re-arms, the table holds the plan the job is
\* armed for (the job's date is its next_date, or next_date + 1), and a
\* handler that ends because the store write raised has changed neither the
\* table nor the job queue.
JobFireStep(u) == job[u].pc = "idle" /\ Len(jobs'[u]) < Len(jobs[u]) /\ up'

\* the step of a handler in which schedule_next_gift ran
RearmStep(u) == jobs'[u] # jobs[u] /\ ~JobFireStep(u) /\ up'

\* the step in which a handler ends because db_upsert_plan raised
StoreRaisedStep(u) ==
  \/ job[u].pc = "send" /\ job'[u].pc = "store_raised"
  \/ upd.pc # "store_raised" /\ upd'.pc = "store_raised" /\ upd'.uid = u

C14_PersistBeforeRearm ==
  [][\A u \in Users :
       /\ RearmStep(u) =>
            /\ store'[u] = PlanOf(u)'
            /\ \A i \in 1..Len(jobs'[u]) :
                 jobs'[u][i] \in {RunAt(store'[u].next_date),
                                  RunAt(store'[u].next_date + 1)}
       /\ StoreRaisedStep(u) =>
            /\ jobs'[u] = jobs[u]
            /\ store'[u] = store[u]]_vars

\* the store write of a timer delivery raised: the plan in memory has moved
\* to a date still in the window, the table has not, and no job was armed
C14_Witness ==
  \E u \in Users :
    /\ job[u].pc = "store_raised"
    /\ users[u] # None
    /\ PlanOf(u).next_date <= PlanOf(u).end_date
    /\ store[u] # PlanOf(u)
    /\ jobs[u] = <<>>

\* ---- C15 ----
\* C15: schedule_next_gift called on its own, for any plan and any now,
\* changes only the user's pending job: the plan in memory, the row in the
\* table and the messages sent stay as they were, also when the fire time of
\* next_date has passed and the job is armed one day later.
C15_RearmOnlyTimer ==
  [][\A u \in Users :
       /\ PlanOf(u)' = PlanOf(u)
       /\ store'[u] = store[u]
       /\ sent'[u] = sent[u]]_vars

\* the fire time of next_date had passed and the job was armed for the day
\* after next_date; nothing was sent
C15_Witness ==
  \E u \in Users :
    /\ RunAt(PlanOf(u).next_date) <= now
    /\ jobs[u] = <<RunAt(PlanOf(u).next_date + 1)>>
    /\ store[u] = PlanOf(u)
    /\ sent[u] = <<>>

\* ---- the handlers for a user without a plan ----

\* a user who is not in users, at any time, with a job gift_<user> pending
\* (the case lines 341-342 provide for)
InitNoPlan ==
  /\ now \in FirstInstant..RunAt(RearmLastDay)
  /\ up = TRUE
  /\ heap = [u \in Users |-> [o \in ObjIds |-> NoPlan]]
  /\ users = [u \in Users |-> None]
  /\ store = [u \in Users |-> NoPlan]
  /\ \E d \in 1..RearmLastDay : jobs = [u \in Users |-> <<RunAt(d)>>]
  /\ job = [u \in Users |-> IdleJob]
  /\ upd = IdleUpd
  /\ user_data = [u \in Users |-> None]
  /\ conv = [u \in Users |-> ConvEnd]
  /\ sent = [u \in Users |-> <<>>]

NextNoPlan ==
  \/ \E u \in Users : JobFire(u)
  \/ \E u \in Users : GiftBegin(u)
  \/ \E u \in Users : GiftNoPlan(u)
  \/ error_handler

SpecNoPlan == InitNoPlan /\ [][NextNoPlan]_vars

\* ---- C16 ----
\* C16: for a user without a plan a timer firing does nothing (the task ends
\* without sending) and /gift only gives the not-configured reply: no gift
\* content is sent, no plan appears in memory or in the table, and no job is
\* armed.
C16_NoPlanNoEffect ==
  [][\A u \in Users :
       users[u] = None =>
         /\ users'[u] = None
         /\ heap'[u] = heap[u]
         /\ store'[u] = store[u]
         /\ sent'[u] = sent[u]
         /\ job'[u] = IdleJob
         /\ upd'.pc \in {"idle", "gift_noplan", "send_raised"}
         /\ jobs'[u] = jobs[u] \/ jobs'[u] = <<>>]_vars

\* the pending job of a user without a plan has fired
C16_Witness ==
  \E u \in Users :
    /\ users[u] = None /\ store[u] = NoPlan
    /\ jobs[u] = <<>>
    /\ job[u] = IdleJob
    /\ sent[u] = <<>>

\* ---- C17 ----
\* C17: the window of the plan in memory is the one selected last: once a
\* user has a plan, only a step in which pick_end_date installs a plan
\* changes its start_date or end_date; a timer task or /gift that was
\* suspended when the selection ran does not bring the old window back.
Window(plan) == <<plan.start_date, plan.end_date>>

C17_SelectionWins ==
  [][\A u \in Users :
       (users[u] # None /\ ~SelectStep(u) /\ up')
         => Window(PlanOf(u)') = Window(PlanOf(u))]_vars

\* ---- C18 ----
\* C18: in every reachable state a pending job of a user is armed for
\* next_date of the user's row in the table, or for next_date + 1, and for no
\* date after end_date; no job is pending when next_date > end_date.
C18_TimerFollowsStore ==
  \A u \in Users : \A i \in 1..Len(jobs[u]) :
    /\ store[u] # NoPlan
    /\ store[u].next_date <= store[u].end_date
    /\ jobs[u][i] \in {RunAt(store[u].next_date), RunAt(store[u].next_date + 1)}
    /\ jobs[u][i] <= RunAt(store[u].end_date)

\* ---- C19 ----
\* C19: the plan pick_end_date creates has next_date = max(start_date,
\* today); when today is inside the window the handler delivers the content
\* of today (not of start_date) and installs next_date = today + 1,
\* otherwise it delivers nothing; the installed plan has next_date >= today
\* and no job is armed for a date before today.
C19_FirstDueIsMax ==
  [][\A u \in Users :
       /\ (upd.pc = "idle" /\ upd'.pc = "end_edit" /\ upd'.uid = u) =>
            /\ upd'.new.start_date = user_data[u]
            /\ upd'.new.next_date = IF user_data[u] >= Today(now)
                                    THEN user_data[u] ELSE Today(now)
       /\ SelectStep(u) =>
            LET plan == PlanOf(u)'
                inside == plan.start_date <= Today(now)
                            /\ Today(now) <= plan.end_date
            IN /\ plan.next_date >= Today(now)
               /\ \A i \in 1..Len(jobs'[u]) : jobs'[u][i] >= RunAt(Today(now))
               /\ IF inside
                  THEN /\ sent'[u] = Append(sent[u], Msg("select", Today(now)))
                       /\ plan.next_date = Today(now) + 1
                       /\ plan.last_gift_date = Today(now)
                  ELSE /\ sent'[u] = sent[u]
                       /\ plan.next_date = Max(plan.start_date, Today(now))]_vars

\* a plan whose window had started before the day of the selection is
\* installed: the content of that day was delivered, not that of start_date
C19_Witness ==
  \E u \in Users :
    /\ Quiet /\ users[u] # None
    /\ sent[u] # <<>>
    /\ sent[u][Len(sent[u])].via = "select"
    /\ PlanOf(u).start_date < DateOf(sent[u][Len(sent[u])])
    /\ PlanOf(u).last_gift_date = DateOf(sent[u][Len(sent[u])])
    /\ PlanOf(u).next_date = PlanOf(u).last_gift_date + 1

\* ---- C20 ----
\* C20: whenever no handler is running and a user's plan has next_date <=
\* end_date with the fire time of next_date still ahead, a job is pending
\* for the user; in particular this is so in the state a timer firing
\* leaves, whether it ended normally or because its send or its store write
\* raised.
TimerExpected(u) ==
  /\ users[u] # None
  /\ PlanOf(u).next_date <= PlanOf(u).end_date
  /\ RunAt(PlanOf(u).next_date) > now

\* the step in which send_scheduled_gift ends, normally or by an exception
JobExitStep(u) ==
  job[u].pc = "send" /\ job'[u].pc \in {"idle", "send_raised", "store_raised"} /\ up'

C20_TimerStaysArmed ==
  /\ [][\A u \in Users :
          (JobExitStep(u) /\ TimerExpected(u)') => jobs'[u] # <<>>]_vars
  /\ [](\A u \in Users : (up /\ Quiet /\ TimerExpected(u)) => jobs[u] # <<>>)

\* ---- one plan, no failure, no restart, no re-selection ----

\* the dates the plan of u still has to deliver
Remaining(u) ==
  IF users[u] = None THEN 0
  ELSE Max(0, PlanOf(u).end_date - PlanOf(u).next_date + 1)

\* the selection dialogue of a user who has no plan yet
ProgressStart(u, day) == users[u] = None /\ pick_start_date(u, day)
ProgressEndBegin(u, day) == users[u] = None /\ PickEndBegin(u, day)
ProgressEndRejected(u) == PickEndRejected(u) /\ upd'.pc = "idle"
ProgressEndEdited(u) == PickEndEdited(u) /\ upd'.pc # "store_raised"
ProgressEndSent(u) == PickEndSent(u) /\ upd'.pc = "idle"

\* send_scheduled_gift whose send and store write succeed
ProgressJobSent(u) == JobSent(u) /\ job'[u].pc = "idle"

\* /gift whose sends and store write succeed; a request is made only while
\* MaxSends leaves room for the deliveries the plan still owes
ProgressGiftBegin(u) ==
  Len(sent[u]) + Remaining(u) < MaxSends /\ GiftBegin(u)
ProgressGiftNoPlan(u) == GiftNoPlan(u) /\ upd'.pc = "idle"
ProgressGiftSent(u) == GiftSent(u) /\ upd'.pc = "idle"

NextProgress ==
  \/ Tick
  \/ \E u \in Users, day \in StartDays : ProgressStart(u, day)
  \/ \E u \in Users, day \in EndDays : ProgressEndBegin(u, day)
  \/ \E u \in Users : ProgressEndRejected(u)
  \/ \E u \in Users : ProgressEndEdited(u)
  \/ \E u \in Users : ProgressEndSent(u)
  \/ \E u \in Users : JobFire(u)
  \/ \E u \in Users : ProgressJobSent(u)
  \/ \E u \in Users : ProgressGiftBegin(u)
  \/ \E u \in Users : ProgressGiftNoPlan(u)
  \/ \E u \in Users : GiftRepeated(u)
  \/ \E u \in Users : ProgressGiftSent(u)

\* the clock runs, a due job is run, and every awaited call returns; what
\* the user sends is not forced
FairProgress ==
  /\ WF_vars(Tick)
  /\ \A u \in Users :
       /\ WF_vars(JobFire(u))
       /\ WF_vars(ProgressJobSent(u))
       /\ WF_vars(ProgressEndRejected(u))
       /\ WF_vars(ProgressEndEdited(u))
       /\ WF_vars(ProgressEndSent(u))
       /\ WF_vars(ProgressGiftNoPlan(u))
       /\ WF_vars(GiftRepeated(u))
       /\ WF_vars(ProgressGiftSent(u))

SpecProgress == Init /\ [][NextProgress]_vars /\ FairProgress

\* ---- C21 ----
\* C21: with no restart, no failure and no re-selection, the content of
\* every date the plan has between next_date and end_date is eventually
\* delivered, and the plan eventually reaches next_date > end_date with no
\* job pending.
C21_Owes(u, d) ==
  /\ users[u] # None
  /\ PlanOf(u).next_date <= d
  /\ d <= PlanOf(u).end_date

C21_Completed(u) ==
  /\ users[u] # None
  /\ PlanOf(u).next_date > PlanOf(u).end_date
  /\ jobs[u] = <<>>

C21_ProgressToCompletion ==
  /\ \A u \in Users : \A d \in 1..MaxDay :
       C21_Owes(u, d) ~> (d \in DatesSent(u))
  /\ \A u \in Users : (users[u] # None) ~> C21_Completed(u)

=============================================================================
